---- MODULE Spec2Model ----
(***************************************************************************)
(* Model of the finder engine of pop (finders.go) and of the has-one       *)
(* association's target value (associations/has_one_association.go).       *)
(*                                                                         *)
(* Text is modelled as a sequence of one-character strings, so that the    *)
(* regular expressions, strings.TrimSpace and strconv.Atoi are computed    *)
(* character by character as the Go code computes them.                    *)
(***************************************************************************)
EXTENDS Integers, Sequences, FiniteSets, TLC

VARIABLES
  q,          \* the caller's *Query
  paginator,  \* the Paginator object q.Paginator points to
  conn,       \* the *Connection the Query refers to
  schema,     \* whether the model types of this run declare associations
  stack,      \* call stack of eagerAssociations, innermost frame last
  err,        \* value returned by the eagerAssociations call that just ended
  returned,   \* TRUE while a returned value waits for the caller's check
  call,       \* the finder call in progress, or the last one that returned
  hist,       \* what happened inside the association resolution of `call`
  sql,        \* SQL text produced by ToSQL inside Exists / CountByField
  rw,         \* outcome of the aggregate rewriting of `sql`
  addColumns, \* q.addColumns, as text
  selCall,    \* arguments of the last Select call and the columns before it
  fnd         \* the last Find call: its id and the constraint it bound

mvars == <<q, paginator, conn, schema, stack, err, returned, call, hist>>
rvars == <<sql, rw>>
svars == <<addColumns, selCall>>
fvars == <<fnd>>
vars == <<q, paginator, conn, schema, stack, err, returned, call, hist,
          sql, rw, addColumns, selCall, fnd>>

(***************************************************************************)
(* Bounds of the model.                                                    *)
(***************************************************************************)
MaxFrags == 4      \* fragments concatenated into a generated SQL text
MaxOrder == 2      \* ORDER clauses chained on a Query
MaxWhere == 1      \* WHERE clauses chained on a Query
MaxPerPage == 3    \* largest requested page size
MaxCount == 4      \* largest row count the store reports
MaxRows == 2       \* largest number of rows a SELECT materializes
MaxAssoc == 2      \* associations discovered for one struct
MaxInner == 1      \* inner associations declared by one association
MaxFields == 2     \* arguments of one Select call
MaxColumns == 2    \* columns registered before a further Select call
MaxIdLen == 3      \* characters of a string id handed to Find

(***************************************************************************)
(* Text helpers.                                                           *)
(***************************************************************************)
Digits == {"0", "1", "2", "3", "4", "5", "6", "7", "8", "9"}

IsDigit(c) == c \in Digits

\* Case folding of (?i) for the letters the two patterns use.
Fold(c) ==
  CASE c = "L" -> "l" [] c = "I" -> "i" [] c = "M" -> "m" [] c = "T" -> "t"
    [] c = "O" -> "o" [] c = "F" -> "f" [] c = "S" -> "s" [] c = "E" -> "e"
    [] OTHER -> c

RECURSIVE Flatten(_)
Flatten(ss) == IF ss = <<>> THEN <<>> ELSE Head(ss) \o Flatten(Tail(ss))

(***************************************************************************)
(* Regular expressions.  A pattern is a sequence of elements, each either  *)
(* a literal character (matched case-insensitively) or "D+", one or more   *)
(* decimal digits; both patterns end in $, the end of the text.            *)
(***************************************************************************)
Lit(cs) == [i \in 1..Len(cs) |-> [k |-> "lit", c |-> cs[i]]]

DigitsPlus == <<[k |-> "digits", c |-> ""]>>

rLimitOffset ==
  Lit(<<"l", "i", "m", "i", "t", " ">>) \o DigitsPlus
    \o Lit(<<" ", "o", "f", "f", "s", "e", "t", " ">>) \o DigitsPlus

rLimit == Lit(<<"l", "i", "m", "i", "t", " ">>) \o DigitsPlus

\* Whether pat[pi..] matches s[si..] up to the end of s.
RECURSIVE MatchFrom(_, _, _, _)
MatchFrom(pat, pi, s, si) ==
  IF pi > Len(pat) THEN si = Len(s) + 1
  ELSE IF si > Len(s) THEN FALSE
  ELSE IF pat[pi].k = "lit"
    THEN Fold(s[si]) = pat[pi].c /\ MatchFrom(pat, pi + 1, s, si + 1)
    ELSE IsDigit(s[si])
           /\ (MatchFrom(pat, pi, s, si + 1) \/ MatchFrom(pat, pi + 1, s, si + 1))

MatchStarts(pat, s) == {i \in 1..Len(s) : MatchFrom(pat, 1, s, i)}

\* regexp.MatchString
MatchString(pat, s) == MatchStarts(pat, s) # {}

\* regexp.FindString: the leftmost match, "" when there is none.
FindString(pat, s) ==
  IF MatchStarts(pat, s) = {} THEN <<>>
  ELSE LET i == CHOOSE j \in MatchStarts(pat, s) :
                  \A k \in MatchStarts(pat, s) : j <= k
       IN SubSeq(s, i, Len(s))

\* query[0 : len(query)-len(foundLimit)]
CutSuffix(query, foundLimit) == SubSeq(query, 1, Len(query) - Len(foundLimit))

\* The limit stripping without the LIMIT ... OFFSET branch.
StripLimit_BareOnly(query) ==
  IF MatchString(rLimit, query)
    THEN CutSuffix(query, FindString(rLimit, query))
    ELSE query

\* The limit stripping of Exists and CountByField.
StripLimit(query) ==
  IF MatchString(rLimitOffset, query)
    THEN CutSuffix(query, FindString(rLimitOffset, query))
    ELSE IF MatchString(rLimit, query)
      THEN CutSuffix(query, FindString(rLimit, query))
      ELSE query

\* fmt.Sprintf("SELECT EXISTS (%s)", query)
ExistsQuery(query) ==
  <<"S", "E", "L", "E", "C", "T", " ", "E", "X", "I", "S", "T", "S", " ", "(">>
    \o query \o <<")">>

\* fmt.Sprintf("SELECT COUNT(%s) AS row_count FROM (%s) a", field, query)
CountQuery(field, query) ==
  <<"S", "E", "L", "E", "C", "T", " ", "C", "O", "U", "N", "T", "(">> \o field
    \o <<")", " ", "A", "S", " ", "r", "o", "w", "_", "c", "o", "u", "n", "t",
         " ", "F", "R", "O", "M", " ", "(">>
    \o query \o <<")", " ", "a">>

(***************************************************************************)
(* Errors.  An error value is its cause and whether errors.Wrap has added  *)
(* context to it; errors.Cause recovers the cause.                         *)
(***************************************************************************)
Nil == [cause |-> "nil", wrapped |-> FALSE]

ErrNoRows == [cause |-> "sql.ErrNoRows", wrapped |-> FALSE]

ErrExec == [cause |-> "store", wrapped |-> FALSE]

ErrHook == [cause |-> "afterFind", wrapped |-> FALSE]

ErrDiscovery == [cause |-> "associations.ForStruct", wrapped |-> FALSE]

\* errors.Wrap(err, "unable to fetch records"); Wrap(nil) is nil.
Wrap(e) == IF e = Nil THEN Nil ELSE [e EXCEPT !.wrapped = TRUE]

Cause(e) == [e EXCEPT !.wrapped = FALSE]

(***************************************************************************)
(* Query, Connection and Paginator.                                        *)
(***************************************************************************)
Null == "nil"

PaginatorRef == "paginator"

LastOrder == "created_at DESC, id DESC"

\* A value bound to a placeholder: an int, a string or a uuid.
IntArg(n) == [t |-> "int", s |-> <<>>, n |-> n]

StringArg(s) == [t |-> "string", s |-> s, n |-> 0]

UUIDArg(s) == [t |-> "uuid", s |-> s, n |-> 0]

\* Q(c): a fresh Query on c, which takes the connection's eager flag.
Q(c) ==
  [whereClauses |-> <<>>, orderClauses |-> <<>>, limitResults |-> 0,
   Paginator |-> Null, eager |-> c.eager, eagerFields |-> <<>>]

Where(qq, stmt, arg) ==
  [qq EXCEPT !.whereClauses = Append(@, [stmt |-> stmt, arg |-> arg])]

Order(qq, stmt) == [qq EXCEPT !.orderClauses = Append(@, stmt)]

Limit(qq, n) == [qq EXCEPT !.limitResults = n]

\* q.Clone(target): target takes q's clauses and a reference to a copy of
\* q's Paginator; q itself is only read.
Clone(qq, target) ==
  [target EXCEPT !.whereClauses = qq.whereClauses,
                 !.orderClauses = qq.orderClauses,
                 !.limitResults = qq.limitResults,
                 !.Paginator = IF qq.Paginator = Null THEN Null ELSE "copy"]

disableEager(qq) == [qq EXCEPT !.eager = FALSE]

NewPaginator(perPage) ==
  [PerPage |-> perPage, TotalEntriesSize |-> 0, CurrentEntriesSize |-> 0,
   TotalPages |-> 0]

\* Go's integer division truncates toward zero; % takes the dividend's sign.
GoDiv(a, b) ==
  LET abs(x) == IF x < 0 THEN -x ELSE x
      m == abs(a) \div abs(b)
  IN IF (a < 0) = (b < 0) THEN m ELSE -m

GoMod(a, b) == a - b * GoDiv(a, b)

(***************************************************************************)
(* Exists and CountByField on the Query: the temporary clone and what is   *)
(* done to it.  The result holds the caller's Query and the clone as they  *)
(* are when the call returns.                                              *)
(***************************************************************************)
ClearedClone(qq, c) ==
  [Clone(qq, Q(c)) EXCEPT !.Paginator = Null, !.orderClauses = <<>>,
                          !.limitResults = 0]

\* The clearing applied to the receiver instead of the clone.
AggregateQueries_OnReceiver(qq, c) ==
  [orig |-> [qq EXCEPT !.Paginator = Null, !.orderClauses = <<>>,
                       !.limitResults = 0],
   tmp |-> Clone(qq, Q(c))]

AggregateQueries(qq, c) == [orig |-> qq, tmp |-> ClearedClone(qq, c)]

(***************************************************************************)
(* paginateModel: ct, cerr is what q.Count returns, n the number of rows   *)
(* in the result collection.                                               *)
(***************************************************************************)
paginateModel_NoRoundUp(qq, p, ct, cerr, n) ==
  IF qq.Paginator = Null THEN [pag |-> p, err |-> Nil, counts |-> 0]
  ELSE IF cerr # Nil THEN [pag |-> p, err |-> cerr, counts |-> 1]
  ELSE [pag |-> [p EXCEPT !.TotalEntriesSize = ct, !.CurrentEntriesSize = n,
                          !.TotalPages = GoDiv(ct, p.PerPage)],
        err |-> Nil, counts |-> 1]

paginateModel(qq, p, ct, cerr, n) ==
  IF qq.Paginator = Null THEN [pag |-> p, err |-> Nil, counts |-> 0]
  ELSE IF cerr # Nil THEN [pag |-> p, err |-> cerr, counts |-> 1]
  ELSE LET p1 == [p EXCEPT !.TotalEntriesSize = ct, !.CurrentEntriesSize = n]
           p2 == [p1 EXCEPT !.TotalPages = GoDiv(p1.TotalEntriesSize, p1.PerPage)]
       IN [pag |-> IF GoMod(p2.TotalEntriesSize, p2.PerPage) > 0
                     THEN [p2 EXCEPT !.TotalPages = p2.TotalPages + 1]
                     ELSE p2,
           err |-> Nil, counts |-> 1]

(***************************************************************************)
(* The error of the timed function of First / Last (SelectOne, then the    *)
(* afterFind hook) and of All (SelectMany, paginateModel, afterFind).      *)
(***************************************************************************)
SelectErr(sel, hook) == IF sel # Nil THEN sel ELSE hook

SelectManyErr(sel, pg, hook) ==
  Wrap(IF sel # Nil THEN sel ELSE IF pg # Nil THEN pg ELSE hook)

(***************************************************************************)
(* Association resolution.                                                 *)
(***************************************************************************)
\* Value of a single-valued association's field in the owner.
FieldNil == "nil pointer"

FieldZero == "zero struct"

FieldNew == "pointer to a new zero struct"

FieldSet == "populated"

\* hasOneAssociation.Interface: a pointer field is set to a freshly
\* allocated struct, any other field is used as it is.
Interface(ptr, field) == IF ptr THEN FieldNew ELSE field

\* The field after the single-row SELECT into the target ended with e.
AfterSelectOne(target, e) == IF e = Nil THEN FieldSet ELSE target

\* Line 273: whether the loop goes on after a sub-query returned e.
Tolerated(e) == ~(e # Nil /\ Cause(e) # ErrNoRows)

\* A caller that never looks at what the nested call returned.
ChildFailed_Never(e) == FALSE

\* Lines 224 and 284: whether a nested eagerAssociations call failed.
ChildFailed(e) == e # Nil

\* The association descriptors discovery may return at nesting level lvl.
\* The type graph of a run is two levels deep: the associations of the root
\* type may declare inner associations, those of the nested types do not.
AssocSet(lvl) ==
  LET inners == IF lvl = 0 THEN 0..MaxInner ELSE {0} IN
  [kind : {"Struct"}, ptr : {TRUE}, before : {FieldNil, FieldSet},
   skipped : BOOLEAN, nInner : inners]
  \cup [kind : {"Struct"}, ptr : {FALSE}, before : {FieldZero, FieldSet},
        skipped : BOOLEAN, nInner : inners]
  \cup [kind : {"Slice"}, ptr : {FALSE}, before : {FieldZero},
        skipped : BOOLEAN, nInner : inners]

StructModel == [k |-> "struct", n |-> 0]

SliceModel(n) == [k |-> "slice", n |-> n]

NoAssoc ==
  [kind |-> "none", ptr |-> FALSE, before |-> FieldZero, after |-> FieldZero,
   res |-> Nil]

\* A frame of eagerAssociations: recv says whether its receiver is the
\* caller's Query or a Query local to the resolution.
Frame(model, recv, lvl) ==
  [k |-> model.k,
   phase |-> IF model.k = "slice" THEN "elements" ELSE "discover",
   left |-> model.n, inner |-> 0, curKind |-> "none", curRows |-> 0,
   recv |-> recv, lvl |-> lvl]

NoHist ==
  [issued |-> FALSE, firstFail |-> Nil, late |-> FALSE, subEager |-> FALSE,
   last |-> NoAssoc]

Top == stack[Len(stack)]

Front(s) == SubSeq(s, 1, Len(s) - 1)

SetTop(f) == [stack EXCEPT ![Len(stack)] = f]

\* The parent's check of the value a nested call returned lets it go on.
MayProceed == returned => ~ChildFailed(err)

InFrame(k, phase) ==
  /\ stack # <<>>
  /\ Top.k = k
  /\ Top.phase = phase
  /\ MayProceed

\* return e from the innermost eagerAssociations call
Return(e) ==
  /\ stack' = Front(stack)
  /\ err' = e
  /\ returned' = TRUE

\* A failure recorded in the history, whatever the code then does with it.
Failure(h, e) ==
  IF h.firstFail = Nil /\ e # Nil /\ Cause(e) # ErrNoRows
    THEN [h EXCEPT !.firstFail = e] ELSE h

\* Lines 219-229: the model is a slice or array.
SliceStep ==
  /\ InFrame("slice", "elements")
  /\ IF Top.left = 0
       THEN Return(IF returned THEN err ELSE Nil)
       ELSE /\ stack' = Append(SetTop([Top EXCEPT !.left = @ - 1]),
                               Frame(StructModel, Top.recv, Top.lvl))
            /\ returned' = FALSE
            /\ err' = err
  /\ UNCHANGED <<q, paginator, conn, schema, call, hist>>

\* Lines 231-238: discovery, then the eager flags are cleared.
Discover ==
  /\ InFrame("struct", "discover")
  /\ \/ /\ Return(ErrDiscovery)
        /\ hist' = Failure(hist, ErrDiscovery)
        /\ UNCHANGED <<q, conn>>
     \/ \E n \in 0..(IF schema = "associated" THEN MaxAssoc ELSE 0) :
          /\ stack' = SetTop([Top EXCEPT !.phase = "loop", !.left = n])
          /\ q' = IF Top.recv = "caller" THEN [q EXCEPT !.eager = FALSE] ELSE q
          /\ conn' = [conn EXCEPT !.eager = FALSE]
          /\ UNCHANGED <<err, returned, hist>>
  /\ UNCHANGED <<paginator, schema, call>>

\* Lines 240-275: the next association of the loop and its sub-query.
AssocStep ==
  /\ InFrame("struct", "loop")
  /\ IF Top.left = 0
       THEN Return(Nil) /\ UNCHANGED hist
       ELSE \E a \in AssocSet(Top.lvl) :
         IF a.skipped
           THEN /\ stack' = SetTop([Top EXCEPT !.left = @ - 1])
                /\ UNCHANGED <<err, returned, hist>>
           ELSE \E sel \in {Nil, ErrNoRows, ErrExec}, hook \in {Nil, ErrHook},
                   rows \in 0..MaxRows :
             LET query == Q(conn)
                 target == Interface(a.ptr, a.before)
                 e == IF a.kind = "Slice"
                        THEN SelectManyErr(sel, Nil, hook)
                        ELSE SelectErr(sel, hook)
                 h == [hist EXCEPT
                         !.issued = TRUE,
                         !.late = @ \/ hist.firstFail # Nil,
                         !.subEager = @ \/ (query.eager /\ e = Nil),
                         !.last = IF a.kind = "Struct"
                                    THEN [kind |-> a.kind, ptr |-> a.ptr,
                                          before |-> a.before,
                                          after |-> AfterSelectOne(target, e),
                                          res |-> e]
                                    ELSE NoAssoc]
             IN /\ a.kind = "Struct" => rows = 0
                /\ (sel # Nil \/ hook # Nil) => rows = 0
                /\ hist' = Failure(h, e)
                /\ IF ~Tolerated(e)
                     THEN Return(e)
                     ELSE /\ stack' = SetTop([Top EXCEPT !.phase = "inner",
                                                !.inner = a.nInner,
                                                !.curKind = a.kind,
                                                !.curRows = rows])
                          /\ returned' = FALSE
                          /\ err' = err
  /\ UNCHANGED <<q, paginator, conn, schema, call>>

\* Lines 277-287: the inner associations of the association just loaded.
InnerStep ==
  /\ InFrame("struct", "inner")
  /\ IF Top.inner = 0
       THEN stack' = SetTop([Top EXCEPT !.phase = "loop", !.left = @ - 1,
                                        !.curKind = "none", !.curRows = 0])
       ELSE stack' = Append(SetTop([Top EXCEPT !.inner = @ - 1]),
                            Frame(IF Top.curKind = "Slice"
                                    THEN SliceModel(Top.curRows)
                                    ELSE StructModel,
                                  "local", Top.lvl + 1))
  /\ returned' = FALSE
  /\ err' = err
  /\ hist' = [hist EXCEPT !.last = NoAssoc]
  /\ UNCHANGED <<q, paginator, conn, schema, call>>

\* Lines 224-226 and 284-286: return err.
Propagate ==
  /\ stack # <<>>
  /\ returned
  /\ ChildFailed(err)
  /\ Return(err)
  /\ UNCHANGED <<q, paginator, conn, schema, call, hist>>

(***************************************************************************)
(* The finder calls.                                                       *)
(***************************************************************************)
OrderPool == {"name ASC"}

LimitPool == {5}

WherePool == {"name = ?"}

FieldPool == {<<>>, <<"Books">>}

\* A Query is built by chained calls and then used for one finder call.
MayCall == call.op = "none"

\* The record of a call that starts now.
StartCall(op) ==
  [op |-> op, done |-> FALSE, ret |-> Nil,
   preQ |-> q, preConn |-> conn, prePag |-> paginator,
   order |-> <<>>, tmp |-> q, counts |-> 0, ct |-> 0, rows |-> 0,
   paged |-> FALSE]

\* Lines 82-91, 118-128, 158-168: the timed function returned e on
\* receiver q1; with no error and the eager flag set, resolution starts.
AfterSelect(c, q1, e, model) ==
  /\ q' = q1
  /\ hist' = NoHist
  /\ err' = Nil
  /\ returned' = FALSE
  /\ UNCHANGED <<conn, schema>>
  /\ IF e = Nil /\ q1.eager
       THEN /\ stack' = <<Frame(model, "caller", 0)>>
            /\ call' = c
       ELSE /\ stack' = <<>>
            /\ call' = [c EXCEPT !.done = TRUE, !.ret = e]

\* Query.First on receiver qq.
FirstOn(qq) ==
  /\ MayCall
  /\ \E sel \in {Nil, ErrNoRows, ErrExec}, hook \in {Nil, ErrHook} :
       LET q1 == Limit(qq, 1) IN
       AfterSelect([StartCall("First") EXCEPT !.order = q1.orderClauses],
                   q1, SelectErr(sel, hook), StructModel)
  /\ paginator' = paginator

First == FirstOn(q) /\ UNCHANGED <<rvars, svars, fvars>>

\* Lines 109-110 of Query.Last.
LastQuery(qq) == Order(Limit(qq, 1), LastOrder)

Last ==
  /\ MayCall
  /\ Len(q.orderClauses) < MaxOrder
  /\ \E sel \in {Nil, ErrNoRows, ErrExec}, hook \in {Nil, ErrHook} :
       LET q1 == LastQuery(q) IN
       AfterSelect([StartCall("Last") EXCEPT !.order = q1.orderClauses],
                   q1, SelectErr(sel, hook), StructModel)
  /\ paginator' = paginator
  /\ UNCHANGED <<rvars, svars, fvars>>

All ==
  /\ MayCall
  /\ \E sel \in {Nil, ErrExec}, hook \in {Nil, ErrHook}, n \in 0..MaxRows,
        ct \in 0..MaxCount, cerr \in {Nil, ErrExec} :
       LET pm == IF sel = Nil
                   THEN paginateModel(q, paginator, ct, cerr, n)
                   ELSE [pag |-> paginator, err |-> Nil, counts |-> 0]
           counted == pm.counts > 0 /\ cerr = Nil
       IN /\ sel # Nil => n = 0
          /\ ~counted => ct = 0
          /\ pm.counts = 0 => cerr = Nil
          /\ pm.err # Nil => hook = Nil
          /\ paginator' = pm.pag
          /\ AfterSelect([StartCall("All") EXCEPT
                            !.order = q.orderClauses, !.counts = pm.counts,
                            !.ct = ct, !.rows = n, !.paged = counted],
                         q, SelectManyErr(sel, pm.err, hook), SliceModel(n))
  /\ UNCHANGED <<rvars, svars, fvars>>

\* Connection.Load: resolution on a Query local to the call.
Load ==
  /\ MayCall
  /\ \E model \in {StructModel} \cup {SliceModel(n) : n \in 0..MaxRows},
        fields \in FieldPool :
       /\ stack' = <<Frame(model, "local", 0)>>
       /\ call' = [StartCall("Load") EXCEPT
                     !.tmp = [Q(conn) EXCEPT !.eagerFields = fields]]
  /\ hist' = NoHist
  /\ err' = Nil
  /\ returned' = FALSE
  /\ UNCHANGED <<q, paginator, conn, schema, rvars, svars, fvars>>

\* Lines 88-89, 124-125, 164-165, 206-207: disableEager, return err.
FinderReturn ==
  /\ ~call.done
  /\ stack = <<>>
  /\ returned
  /\ q' = IF call.op = "Load" THEN q ELSE disableEager(q)
  /\ call' = [call EXCEPT !.done = TRUE, !.ret = err]
  /\ returned' = FALSE
  /\ UNCHANGED <<paginator, conn, schema, stack, err, hist, rvars, svars, fvars>>

\* Query.Exists: a pointer receiver.
Exists ==
  /\ MayCall
  /\ \E serr \in {Nil, ErrExec} :
       LET r == AggregateQueries(q, conn) IN
       /\ q' = r.orig
       /\ call' = [StartCall("Exists") EXCEPT !.done = TRUE, !.ret = serr,
                                              !.tmp = r.tmp]
  /\ hist' = NoHist
  /\ UNCHANGED <<paginator, conn, schema, stack, err, returned, rvars, svars, fvars>>

\* Query.CountByField and Query.Count: a value receiver, so the caller's
\* Query is copied and the copy is what the body works on.
CountByField ==
  /\ MayCall
  /\ \E op \in {"Count", "CountByField"}, serr \in {Nil, ErrExec},
        ct \in 0..MaxCount :
       LET r == AggregateQueries(q, conn) IN
       /\ serr # Nil => ct = 0
       /\ call' = [StartCall(op) EXCEPT !.done = TRUE, !.ret = serr,
                                        !.tmp = r.tmp, !.counts = 1,
                                        !.ct = ct]
  /\ hist' = NoHist
  /\ UNCHANGED <<q, paginator, conn, schema, stack, err, returned, rvars, svars, fvars>>

\* Builder calls chained on the Query between finder calls.
ChainOrder ==
  /\ MayCall
  /\ schema = "plain"
  /\ Len(q.orderClauses) < MaxOrder
  /\ \E stmt \in OrderPool : q' = Order(q, stmt)
  /\ UNCHANGED <<paginator, conn, schema, stack, err, returned, call, hist,
                 rvars, svars, fvars>>

ChainLimit ==
  /\ MayCall
  /\ schema = "plain"
  /\ q.limitResults = 0
  /\ \E n \in LimitPool : q' = Limit(q, n)
  /\ UNCHANGED <<paginator, conn, schema, stack, err, returned, call, hist,
                 rvars, svars, fvars>>

ChainWhere ==
  /\ MayCall
  /\ schema = "plain"
  /\ Len(q.whereClauses) < MaxWhere
  /\ \E stmt \in WherePool : q' = Where(q, stmt, StringArg(<<"m">>))
  /\ UNCHANGED <<paginator, conn, schema, stack, err, returned, call, hist,
                 rvars, svars, fvars>>

(***************************************************************************)
(* The specification of the finder engine.                                 *)
(***************************************************************************)
NoRewrite == [op |-> "none", out |-> <<>>, query |-> <<>>]

RewriteIdle == sql = <<>> /\ rw = NoRewrite

SelectIdle == addColumns = <<>> /\ selCall = [fields |-> <<>>, before |-> <<>>]

NoId == [t |-> "none", s |-> <<>>, n |-> 0]

FindIdle == fnd = [id |-> NoId]

\* Runs over model types with associations start from a Query without
\* Paginator; runs with a Paginator are over model types without any.
InitQuery ==
  /\ conn \in [eager : BOOLEAN]
  /\ schema \in {"plain", "associated"}
  /\ \E e \in BOOLEAN, pg \in {Null, PaginatorRef}, f \in FieldPool :
       /\ schema = "associated" => pg = Null /\ f = <<>>
       /\ q = [Q(conn) EXCEPT !.eager = e, !.Paginator = pg, !.eagerFields = f]
  /\ \E pp \in 1..MaxPerPage :
       /\ q.Paginator = Null => pp = 1
       /\ paginator = NewPaginator(pp)
  /\ stack = <<>>
  /\ err = Nil
  /\ returned = FALSE
  /\ hist = NoHist
  /\ call = [op |-> "none", done |-> TRUE, ret |-> Nil,
             preQ |-> q, preConn |-> conn, prePag |-> paginator,
             order |-> <<>>, tmp |-> q, counts |-> 0, ct |-> 0, rows |-> 0,
             paged |-> FALSE]

Init == InitQuery /\ RewriteIdle /\ SelectIdle /\ FindIdle

Next ==
  \/ ChainOrder
  \/ ChainWhere
  \/ ChainLimit
  \/ First
  \/ Last
  \/ All
  \/ Load
  \/ Exists
  \/ CountByField
  \/ SliceStep /\ UNCHANGED <<rvars, svars, fvars>>
  \/ Discover /\ UNCHANGED <<rvars, svars, fvars>>
  \/ AssocStep /\ UNCHANGED <<rvars, svars, fvars>>
  \/ InnerStep /\ UNCHANGED <<rvars, svars, fvars>>
  \/ Propagate /\ UNCHANGED <<rvars, svars, fvars>>
  \/ FinderReturn

Spec == Init /\ [][Next]_vars

(***************************************************************************)
(* Aggregate rewriting: the text steps of Exists and CountByField on the   *)
(* SQL that ToSQL generated for the cleared clone.                         *)
(***************************************************************************)
FragPool ==
  {<<"x", " ">>, <<" ">>, <<"1">>,
   <<"l", "i", "m", "i", "t", " ">>,
   <<"l", "i", "m", "i", "t", " ", "1">>,
   <<"L", "i", "M", "I", "T", " ", "2", "0">>,
   <<" ", "o", "f", "f", "s", "e", "t", " ">>,
   <<" ", "o", "f", "f", "s", "e", "t", " ", "3">>,
   <<" ", "O", "F", "F", "S", "E", "T", " ", "4", "0">>}

SeqsUpTo(S, n) == UNION {[1..k -> S] : k \in 0..n}

\* The main state of a run that only exercises text functions.
QueryIdle ==
  /\ conn = [eager |-> FALSE]
  /\ schema = "plain"
  /\ q = Q(conn)
  /\ paginator = NewPaginator(1)
  /\ stack = <<>>
  /\ err = Nil
  /\ returned = FALSE
  /\ hist = NoHist
  /\ call = [op |-> "none", done |-> TRUE, ret |-> Nil,
             preQ |-> q, preConn |-> conn, prePag |-> paginator,
             order |-> <<>>, tmp |-> q, counts |-> 0, ct |-> 0, rows |-> 0,
             paged |-> FALSE]

InitRewrite ==
  /\ QueryIdle /\ SelectIdle /\ FindIdle
  /\ \E frags \in SeqsUpTo(FragPool, MaxFrags) : sql = Flatten(frags)
  /\ rw = NoRewrite

\* Lines 306-320 of Exists.
ExistsSQL ==
  /\ rw.op = "none"
  /\ LET query == StripLimit(sql) IN
     rw' = [op |-> "Exists", out |-> query, query |-> ExistsQuery(query)]
  /\ UNCHANGED <<mvars, sql, svars, fvars>>

\* Lines 352-366 of CountByField.
CountByFieldSQL ==
  /\ rw.op = "none"
  /\ \E field \in {<<"*">>, <<"i", "d">>} :
       LET query == StripLimit(sql) IN
       rw' = [op |-> "CountByField", out |-> query,
              query |-> CountQuery(field, query)]
  /\ UNCHANGED <<mvars, sql, svars, fvars>>

NextRewrite == ExistsSQL \/ CountByFieldSQL

SpecRewrite == InitRewrite /\ [][NextRewrite]_vars

(***************************************************************************)
(* Select.                                                                 *)
(***************************************************************************)
IsSpace(c) == c \in {" ", "\t", "\n", "\r"}

RECURSIVE TrimLeft(_)
TrimLeft(s) ==
  IF s # <<>> /\ IsSpace(Head(s)) THEN TrimLeft(Tail(s)) ELSE s

RECURSIVE TrimRight(_)
TrimRight(s) ==
  IF s # <<>> /\ IsSpace(s[Len(s)]) THEN TrimRight(SubSeq(s, 1, Len(s) - 1))
  ELSE s

\* strings.TrimSpace
TrimSpace(s) == TrimRight(TrimLeft(s))

\* Lines 386-390: the loop of Query.Select over its arguments.
RECURSIVE Select(_, _)
Select(cols, fields) ==
  IF fields = <<>> THEN cols
  ELSE LET f == Head(fields) IN
       Select(IF TrimSpace(f) # <<>> THEN Append(cols, f) ELSE cols,
              Tail(fields))

FieldTexts ==
  {<<>>, <<" ">>, <<"n">>, <<"e">>, <<" ", "n">>, <<"n", " ">>, <<"\t">>}

InitSelect ==
  /\ QueryIdle /\ RewriteIdle /\ FindIdle
  /\ addColumns = <<>>
  /\ selCall = [fields |-> <<>>, before |-> <<>>]

SelectCall ==
  /\ Len(addColumns) < MaxColumns
  /\ \E fields \in SeqsUpTo(FieldTexts, MaxFields) :
       /\ addColumns' = Select(addColumns, fields)
       /\ selCall' = [fields |-> fields, before |-> addColumns]
  /\ UNCHANGED <<mvars, rvars, fvars>>

NextSelect == SelectCall

SpecSelect == InitSelect /\ [][NextSelect]_vars

(***************************************************************************)
(* Find.                                                                   *)
(***************************************************************************)
\* m.whereID(): the equality constraint on the primary-key column.
WhereID == "id = ?"

DigitValue(c) ==
  CASE c = "0" -> 0 [] c = "1" -> 1 [] c = "2" -> 2 [] c = "3" -> 3
    [] c = "4" -> 4 [] c = "5" -> 5 [] c = "6" -> 6 [] c = "7" -> 7
    [] c = "8" -> 8 [] c = "9" -> 9

\* The digit loop of strconv.Atoi: n = n*10 + digit, an error at the first
\* byte that is no digit.
RECURSIVE AtoiLoop(_, _)
AtoiLoop(s, n) ==
  IF s = <<>> THEN [n |-> n, ok |-> TRUE]
  ELSE IF ~IsDigit(Head(s)) THEN [n |-> 0, ok |-> FALSE]
  ELSE AtoiLoop(Tail(s), n * 10 + DigitValue(Head(s)))

RECURSIVE StripZeros(_)
StripZeros(s) ==
  IF s # <<>> /\ Head(s) = "0" THEN StripZeros(Tail(s)) ELSE s

\* Whether the digits ds are a magnitude above lim, both without leading
\* zeros: the range check of strconv.ParseInt for 64-bit int.
RECURSIVE DigitsAbove(_, _)
DigitsAbove(ds, lim) ==
  IF Len(ds) # Len(lim) THEN Len(ds) > Len(lim)
  ELSE IF ds = <<>> THEN FALSE
  ELSE IF Head(ds) # Head(lim) THEN DigitValue(Head(ds)) > DigitValue(Head(lim))
  ELSE DigitsAbove(Tail(ds), Tail(lim))

MaxInt64Digits ==
  <<"9", "2", "2", "3", "3", "7", "2", "0", "3", "6", "8", "5", "4", "7", "7",
    "5", "8", "0", "7">>

MinInt64Digits ==
  <<"9", "2", "2", "3", "3", "7", "2", "0", "3", "6", "8", "5", "4", "7", "7",
    "5", "8", "0", "8">>

\* strconv.Atoi: an optional sign, then decimal digits; a syntax error for
\* anything else and a range error outside the 64-bit int.
Atoi(s) ==
  LET signed == s # <<>> /\ Head(s) \in {"-", "+"}
      body == IF signed THEN Tail(s) ELSE s
      neg == signed /\ Head(s) = "-"
  IN IF body = <<>> THEN [n |-> 0, ok |-> FALSE]
     ELSE IF \E i \in 1..Len(body) : ~IsDigit(body[i])
       THEN [n |-> 0, ok |-> FALSE]
     ELSE IF DigitsAbove(StripZeros(body),
                         IF neg THEN MinInt64Digits ELSE MaxInt64Digits)
       THEN [n |-> 0, ok |-> FALSE]
     ELSE LET r == AtoiLoop(body, 0) IN
          [n |-> IF neg THEN -r.n ELSE r.n, ok |-> r.ok]

\* Find that hands every non-empty string to Atoi.
FindArg_AlwaysParse(id) ==
  IF id.t = "uuid" THEN StringArg(id.s)
  ELSE IF id.t = "string" /\ Len(id.s) > 0
    THEN IF Atoi(id.s).ok THEN IntArg(Atoi(id.s).n) ELSE StringArg(id.s)
    ELSE id

\* Lines 38-56: the value Find binds to the primary-key constraint.
FindArg(id) ==
  IF id.t = "uuid" THEN StringArg(id.s)
  ELSE IF id.t = "string" /\ Len(id.s) > 0
            /\ (id.s[1] # "0" \/ Len(id.s) = 1)
    THEN IF Atoi(id.s).ok THEN IntArg(Atoi(id.s).n) ELSE StringArg(id.s)
    ELSE id

IdChars == {"0", "1", "7", "-", "+", "a"}

LongId == [i \in 1..20 |-> "9"]

IdPool ==
  {StringArg(s) : s \in SeqsUpTo(IdChars, MaxIdLen) \cup {LongId}}
    \cup {IntArg(n) : n \in {0, 7}}
    \cup {UUIDArg(<<"u">>)}

InitFind ==
  /\ QueryIdle /\ RewriteIdle /\ SelectIdle
  /\ fnd = [id |-> NoId]

\* Query.Find: q.Where(idq, arg).First(ctx, model)
Find ==
  /\ \E id \in IdPool :
       /\ FirstOn(Where(q, WhereID, FindArg(id)))
       /\ fnd' = [id |-> id]
  /\ UNCHANGED <<rvars, svars>>

NextFind == ChainWhere \/ Find

SpecFind == InitFind /\ [][NextFind]_vars

(***************************************************************************)
(* Properties.                                                             *)
(***************************************************************************)
Aggregates == {"Exists", "Count", "CountByField"}

\* C1: when Exists, Count or CountByField has returned, with or without an
\* error, the Query it was called on, its Paginator object and its eager
\* flag and fields are what they were before the call; the clone took the
\* WHERE clauses and is the one whose Paginator, ORDER clauses and LIMIT
\* were cleared.
C1_AggregatesLeaveQuery ==
  call.op \in Aggregates =>
    /\ call.done
    /\ q = call.preQ
    /\ paginator = call.prePag
    /\ call.tmp.whereClauses = q.whereClauses
    /\ call.tmp.Paginator = Null
    /\ call.tmp.orderClauses = <<>>
    /\ call.tmp.limitResults = 0

\* C1 witness: Exists has returned on an eager Query that has a Paginator,
\* a WHERE clause, an ORDER clause and a LIMIT.
C1_Witness ==
  /\ call.op = "Exists"
  /\ call.preQ.Paginator # Null
  /\ call.preQ.whereClauses # <<>>
  /\ call.preQ.orderClauses # <<>>
  /\ call.preQ.limitResults # 0
  /\ call.preQ.eager

\* C2: the single-row SELECT of Last is ordered by exactly
\* created_at DESC, id DESC, whatever Order calls were chained before.
C2_LastOrderAlone == call.op = "Last" => call.order = <<LastOrder>>

\* C3: when First, Last or All returns on a Query whose eager flag was set,
\* the flag is false, on every return path.
C3_EagerResetOnReturn ==
  (call.done /\ call.op \in {"First", "Last", "All"} /\ call.preQ.eager)
    => ~q.eager

\* C4: when a finder call returns, every field of the Connection has the
\* value it had before the call.
C4_ConnectionOnlyRead == (call.done /\ call.op # "none") => conn = call.preConn

\* C5: a single-valued association whose sub-query matched no row leaves
\* the owner's field at the value it had before resolution, and the
\* resolution goes on.
C5_NoRowsLeavesField ==
  (hist.last.kind = "Struct" /\ Cause(hist.last.res) = ErrNoRows)
    => /\ hist.last.after = hist.last.before
       /\ stack # <<>>
       /\ Top.phase = "inner"

\* C6: association resolution is fail-fast: after the first failure
\* (discovery, a sub-query error other than no-rows, an element, an inner
\* association) no further sub-query is issued, and the finder call returns
\* that first error as it was.
C6_FailFast ==
  /\ ~hist.late
  /\ (call.done /\ hist.firstFail # Nil) => call.ret = hist.firstFail
  /\ (call.done /\ call.op = "Load" /\ hist.firstFail = Nil) => call.ret = Nil

\* No sub-query of the resolution is itself eager: line 238 has cleared the
\* connection's flag before the first Q(q.Connection) of the loop.
SubQueriesNotEager == ~hist.subEager

\* C6 witness: All has returned a discovery failure that happened after a
\* sub-query had been issued, that is in a later element or in an inner
\* association.
C6_Witness ==
  /\ call.done
  /\ call.op = "All"
  /\ hist.issued
  /\ hist.firstFail = ErrDiscovery
  /\ call.ret = ErrDiscovery

\* Text of the claim's two trailing clauses, stated on the text itself.
IsDigitsText(s) == s # <<>> /\ \A i \in 1..Len(s) : s[i] \in Digits

IsWord(s, lower, upper) ==
  /\ Len(s) = Len(lower)
  /\ \A i \in 1..Len(s) : s[i] \in {lower[i], upper[i]}

IsLimitClause(s) ==
  /\ Len(s) > 6
  /\ IsWord(SubSeq(s, 1, 6), <<"l", "i", "m", "i", "t", " ">>,
            <<"L", "I", "M", "I", "T", " ">>)
  /\ IsDigitsText(SubSeq(s, 7, Len(s)))

IsLimitOffsetClause(s) ==
  \E i \in 1..Len(s) :
    /\ IsLimitClause(SubSeq(s, 1, i))
    /\ Len(s) > i + 8
    /\ IsWord(SubSeq(s, i + 1, i + 8),
              <<" ", "o", "f", "f", "s", "e", "t", " ">>,
              <<" ", "O", "F", "F", "S", "E", "T", " ">>)
    /\ IsDigitsText(SubSeq(s, i + 9, Len(s)))

SuffixAt(s, k) == SubSeq(s, k, Len(s))

PrefixBefore(s, k) == SubSeq(s, 1, k - 1)

EndsIn(s, Clause(_)) == \E k \in 1..Len(s) : Clause(SuffixAt(s, k))

CutBefore(s, out, Clause(_)) ==
  \E k \in 1..Len(s) : Clause(SuffixAt(s, k)) /\ out = PrefixBefore(s, k)

\* C7: the text Exists and CountByField wrap is the generated SQL without
\* its trailing LIMIT n OFFSET m when it ends in one, else without its
\* trailing LIMIT n when it ends in one, else the generated SQL unchanged;
\* what is cut starts exactly at the LIMIT keyword.
C7_TrailingLimitStripped ==
  rw.op # "none" =>
    /\ IF EndsIn(sql, IsLimitOffsetClause)
         THEN CutBefore(sql, rw.out, IsLimitOffsetClause)
         ELSE IF EndsIn(sql, IsLimitClause)
           THEN CutBefore(sql, rw.out, IsLimitClause)
           ELSE rw.out = sql
    /\ rw.op = "Exists" => rw.query = ExistsQuery(rw.out)

\* C7 witness: Exists rewrote a text with something before a trailing
\* LIMIT n OFFSET m, and only that prefix is left.
C7_Witness ==
  /\ rw.op = "Exists"
  /\ EndsIn(sql, IsLimitOffsetClause)
  /\ rw.out # <<>>
  /\ rw.out # sql
  /\ ~EndsIn(rw.out, IsLimitClause)

\* C8: after All has paginated, TotalEntriesSize is the count the store
\* returned, CurrentEntriesSize the number of rows materialized and
\* TotalPages the ceiling of TotalEntriesSize / PerPage, which is 0 exactly
\* when TotalEntriesSize is 0; without a Paginator All issues no Count
\* query and changes no Paginator.
C8_Pagination ==
  /\ (call.op = "All" /\ call.paged) =>
       /\ paginator.PerPage = call.prePag.PerPage
       /\ paginator.TotalEntriesSize = call.ct
       /\ paginator.CurrentEntriesSize = call.rows
       /\ paginator.TotalPages >= 0
       /\ paginator.TotalPages * paginator.PerPage >= paginator.TotalEntriesSize
       /\ (paginator.TotalPages - 1) * paginator.PerPage
            < paginator.TotalEntriesSize
       /\ (paginator.TotalPages = 0) <=> (paginator.TotalEntriesSize = 0)
  /\ (call.op = "All" /\ call.preQ.Paginator = Null) =>
       /\ call.counts = 0
       /\ paginator = call.prePag

\* C8 witness: All has paginated a count that is no multiple of the page
\* size and fills more than one page.
C8_Witness ==
  /\ call.op = "All"
  /\ call.paged
  /\ call.ct > paginator.PerPage
  /\ call.ct % paginator.PerPage # 0
  /\ call.rows > 0

\* Text of an integer as the claim means it: an optional sign and decimal
\* digits, here of a value that fits the int type (every value of at most
\* 18 digits does; the longer ids of IdPool are out of its range).
IsIntText(s) ==
  /\ \/ IsDigitsText(s)
     \/ Len(s) > 1 /\ s[1] \in {"-", "+"} /\ IsDigitsText(Tail(s))
  /\ Len(s) <= 18

RECURSIVE Decimal(_)
Decimal(ds) ==
  IF ds = <<>> THEN 0
  ELSE 10 * Decimal(SubSeq(ds, 1, Len(ds) - 1)) + DigitValue(ds[Len(ds)])

IntOfText(s) ==
  IF s[1] = "-" THEN 0 - Decimal(Tail(s))
  ELSE IF s[1] = "+" THEN Decimal(Tail(s)) ELSE Decimal(s)

\* C9: Find on a string id makes one First call on the Query with one more
\* WHERE clause, the primary-key constraint, bound to the integer value of
\* the string when the string is non-empty, does not start with 0 or has
\* length 1, and parses as an integer, and to the string itself otherwise.
C9_FindStringId ==
  fnd.id.t = "string" =>
    LET s == fnd.id.s
        coerced == /\ s # <<>>
                   /\ (s[1] # "0" \/ Len(s) = 1)
                   /\ IsIntText(s)
        bound == IF coerced THEN IntArg(IntOfText(s)) ELSE StringArg(s)
    IN /\ call.op = "First"
       /\ q.whereClauses
            = Append(call.preQ.whereClauses, [stmt |-> WhereID, arg |-> bound])
       /\ q.limitResults = 1

\* C9 witness: Find was called with a digit string that starts with 0 and
\* is longer than one character.
C9_Witness ==
  /\ fnd.id.t = "string"
  /\ Len(fnd.id.s) > 1
  /\ fnd.id.s[1] = "0"
  /\ IsDigitsText(fnd.id.s)
  /\ call.preQ.whereClauses # <<>>

RECURSIVE TrimmedNonBlank(_)
TrimmedNonBlank(fields) ==
  IF fields = <<>> THEN <<>>
  ELSE LET f == TrimSpace(Head(fields)) IN
       (IF f = <<>> THEN <<>> ELSE <<f>>) \o TrimmedNonBlank(Tail(fields))

\* C10: Select appends to the column list, in argument order, the
\* whitespace-trimmed form of every argument that is not blank, and keeps
\* the columns already registered.
C10_SelectTrims ==
  addColumns = selCall.before \o TrimmedNonBlank(selCall.fields)

====
